---- MODULE Spec2Model ----
(***************************************************************************)
(* Model of the job-listing browser of src/src/App.js: the view state of   *)
(* the App component (fetch at startup, search / filter / sort handlers,   *)
(* the recompute effect) and the filtering-and-sorting engine              *)
(* applyFiltersAndSort.                                                    *)
(*                                                                         *)
(* Strings are tuples of one-character strings, so that toLowerCase,       *)
(* includes, replace(/[^0-9]/g, '') and parseInt are computed, not assumed.*)
(* An optional field (department, salary) is the empty tuple when absent   *)
(* and a one-element tuple holding the string when present.                *)
(* A JavaScript number is a one-element tuple <<n>>; NaN is the empty      *)
(* tuple.                                                                  *)
(***************************************************************************)
EXTENDS Integers, Sequences, FiniteSets, TLC

VARIABLES
    jobs,             \* useState([])            App.js:30
    loading,          \* useState(true)          App.js:31
    error,            \* useState(null)          App.js:32
    searchQuery,      \* useState('')            App.js:33
    selectedFilters,  \* useState({...})         App.js:34
    filteredJobs,     \* useState([])            App.js:41
    sortOption,       \* useState('')            App.js:42
    fetch,            \* the promise of fetchJobs(): how loadJobs has ended so far
    effectPending,    \* the recompute effect (App.js:175) is scheduled and has not run
    engineCalls,      \* the fetch states in which the View has invoked the engine
    build,            \* the sort algorithm of the JavaScript engine running the page
    phase,            \* position of the driver of the engine specifications
    returned,         \* the array the last direct call of the engine returned
    applied           \* the predicates already applied (order specification)

vars == <<jobs, loading, error, searchQuery, selectedFilters, filteredJobs,
          sortOption, fetch, effectPending, engineCalls, build, phase,
          returned, applied>>

----------------------------------------------------------------------------
(* Bounds and program constants *)

MaxJobs == 2

DefaultMinSalary == 0

DefaultMaxSalary == 500000

----------------------------------------------------------------------------
(* JavaScript values *)

NaN == <<>>

Num(n) == <<n>>

IsNaN(v) == v = NaN

Null == "null"

\* `x ? a : b` on an optional string: undefined and '' are falsy
Truthy(opt) == opt # <<>> /\ opt[1] # <<>>

Digits == {"0", "1", "2", "3", "4", "5", "6", "7", "8", "9"}

DigitVal(c) ==
    CASE c = "0" -> 0 [] c = "1" -> 1 [] c = "2" -> 2 [] c = "3" -> 3
      [] c = "4" -> 4 [] c = "5" -> 5 [] c = "6" -> 6 [] c = "7" -> 7
      [] c = "8" -> 8 [] c = "9" -> 9

\* the letters of the alphabet in use, in collation order
Letters == <<"a", "b", "d", "e", "g", "i", "l", "m", "n", "o", "p", "s",
             "t", "u", "v", "y">>

Capitals == <<"A", "B", "D", "E", "G", "I", "L", "M", "N", "O", "P", "S",
              "T", "U", "V", "Y">>

IsCapital(c) == \E i \in 1..Len(Capitals) : Capitals[i] = c

LowerChar(c) ==
    IF IsCapital(c)
    THEN Letters[CHOOSE i \in 1..Len(Capitals) : Capitals[i] = c]
    ELSE c

\* String.prototype.toLowerCase
ToLowerCase(s) == [i \in 1..Len(s) |-> LowerChar(s[i])]

\* String.prototype.includes
Includes(s, sub) ==
    \E i \in 0..(Len(s) - Len(sub)) : SubSeq(s, i + 1, i + Len(sub)) = sub

IsDigit(c) == c \in Digits

\* s.replace(/[^0-9]/g, '')
StripNonDigits(s) == SelectSeq(s, IsDigit)

RECURSIVE DigitsValue(_)
DigitsValue(s) ==
    IF s = <<>> THEN 0
    ELSE 10 * DigitsValue(SubSeq(s, 1, Len(s) - 1)) + DigitVal(s[Len(s)])

\* parseInt on a string of digits only: NaN when there is no digit
ParseInt(s) == IF s = <<>> THEN NaN ELSE Num(DigitsValue(s))

\* job.salary ? parseInt(job.salary.replace(/[^0-9]/g, '')) : 0
ParseSalary(job) ==
    IF Truthy(job.salary) THEN ParseInt(StripNonDigits(job.salary[1])) ELSE Num(0)

\* a >= b and a <= b on JavaScript numbers: false when either side is NaN
NumGeq(a, b) == ~IsNaN(a) /\ ~IsNaN(b) /\ a[1] >= b[1]

NumLeq(a, b) == ~IsNaN(a) /\ ~IsNaN(b) /\ a[1] <= b[1]

\* a - b on JavaScript numbers
NumSub(a, b) == IF IsNaN(a) \/ IsNaN(b) THEN NaN ELSE Num(a[1] - b[1])

----------------------------------------------------------------------------
(* The jobs a fetch may return and the values the controls may take *)

Job(t, d, dep, c, l, r, s) ==
    [title |-> t, description |-> d, department |-> dep, companyName |-> c,
     location |-> l, remote |-> r, salary |-> s]

JEng == Job(<<"E","n","g">>, <<"m","l">>, << <<"A","I">> >>, "A",
            <<"N","Y">>, FALSE, << <<"$","1","0","0",",","0","0","0">> >>)

JAna == Job(<<"A","n","a">>, <<"b","i">>, <<>>, "B",
            <<"S","L","O">>, TRUE, << <<"1","0","0","0","0","0"," ","U","S","D">> >>)

JOps == Job(<<"o","p","s">>, <<"a","i">>, << <<"I","T">> >>, "A",
            <<"n","y",",","u","s">>, TRUE, <<>>)

JDev == Job(<<"D","e","v">>, <<"m","l">>, << <<"A","I">> >>, "B",
            <<"S","L","O">>, FALSE, << <<"D","O","E">> >>)

JVp  == Job(<<"V","P">>, <<"a","i">>, << <<"I","T">> >>, "A",
            <<"N","Y">>, FALSE, << <<"$","7","0","0",",","0","0","0">> >>)

Catalogue == {JEng, JAna, JOps, JDev, JVp}

JobLists == UNION {[1..n -> Catalogue] : n \in 0..MaxJobs}

Queries == {<<>>, <<"e","N","g">>, <<"a","i">>}

SortOptions == {"", "alphabetical", "salary-high-low", "salary-low-high"}

CompanySelections == {<<>>, <<"A">>}

LocationSelections == {<<>>, << <<"N","y">> >>}

DepartmentSelections == {<<>>, << <<"A","I">> >>}

SalaryRanges == {<<DefaultMinSalary, DefaultMaxSalary>>,
                 <<90000, DefaultMaxSalary>>,
                 <<DefaultMinSalary, 100000>>,
                 <<DefaultMinSalary, 600000>>}

FilterStates ==
    [companies : CompanySelections, locations : LocationSelections,
     departments : DepartmentSelections, remote : BOOLEAN,
     salary : SalaryRanges]

DefaultFilters ==
    [companies |-> <<>>, locations |-> <<>>, departments |-> <<>>,
     remote |-> FALSE, salary |-> <<DefaultMinSalary, DefaultMaxSalary>>]

\* the filter states the sidebar is driven through in the View
FilterSelections ==
    {DefaultFilters,
     [DefaultFilters EXCEPT !.remote = TRUE],
     [DefaultFilters EXCEPT !.salary = <<90000, DefaultMaxSalary>>],
     [DefaultFilters EXCEPT !.salary = <<DefaultMinSalary, 600000>>],
     [DefaultFilters EXCEPT !.salary = <<DefaultMinSalary, 100000>>,
                            !.locations = << <<"N","y">> >>],
     [DefaultFilters EXCEPT !.companies = <<"A">>,
                            !.departments = << <<"A","I">> >>],
     [companies |-> <<"A">>, locations |-> << <<"N","y">> >>,
      departments |-> << <<"A","I">> >>, remote |-> TRUE,
      salary |-> <<DefaultMinSalary, 100000>>]}

\* what fetchJobs() may resolve to: no response, a response without jobs, a
\* response with a jobs array; and the message it may reject with
NoResponse == [present |-> FALSE, jobs |-> <<>>]

Responses ==
    {NoResponse, [present |-> TRUE, jobs |-> <<>>]}
    \cup {[present |-> TRUE, jobs |-> <<l>>] : l \in JobLists}

RejectReasons == {"Network Error"}

Builds == {"insertion", "merge"}

----------------------------------------------------------------------------
(* applyFiltersAndSort, App.js:99-173 *)

\* the six filter steps in the order of the code
Steps == <<"search", "company", "location", "department", "remote", "salary">>

\* the `if` that guards each filter step
SearchActive(query) == query # <<>>

CompanyActive(filters) == Len(filters.companies) > 0

LocationActive(filters) == Len(filters.locations) > 0

DepartmentActive(filters) == Len(filters.departments) > 0

RemoteActive(filters) == filters.remote

\* mutant: the guard tests only that filters.salary is there
SalaryActive_Always(filters) == TRUE

SalaryActive(filters) ==
    filters.salary[1] > DefaultMinSalary \/ filters.salary[2] < DefaultMaxSalary

\* the callback of each filter step
MatchesSearch(job, searchQry) ==
    LET query == ToLowerCase(searchQry) IN
    \/ Includes(ToLowerCase(job.title), query)
    \/ Includes(ToLowerCase(job.description), query)
    \/ (Truthy(job.department) /\ Includes(ToLowerCase(job.department[1]), query))

MatchesCompany(job, filters) ==
    \E i \in 1..Len(filters.companies) : filters.companies[i] = job.companyName

MatchesLocation(job, filters) ==
    LET jobLocation == ToLowerCase(job.location) IN
    \E i \in 1..Len(filters.locations) :
        Includes(jobLocation, ToLowerCase(filters.locations[i]))

MatchesDepartment(job, filters) ==
    /\ Truthy(job.department)
    /\ \E i \in 1..Len(filters.departments) :
           filters.departments[i] = job.department[1]

MatchesRemote(job) == job.remote

MatchesSalary(job, filters) ==
    LET salary == ParseSalary(job) IN
    NumGeq(salary, Num(filters.salary[1])) /\ NumLeq(salary, Num(filters.salary[2]))

StepActive(step, filters, searchQry) ==
    CASE step = "search"     -> SearchActive(searchQry)
      [] step = "company"    -> CompanyActive(filters)
      [] step = "location"   -> LocationActive(filters)
      [] step = "department" -> DepartmentActive(filters)
      [] step = "remote"     -> RemoteActive(filters)
      [] step = "salary"     -> SalaryActive(filters)

StepMatches(step, job, filters, searchQry) ==
    CASE step = "search"     -> MatchesSearch(job, searchQry)
      [] step = "company"    -> MatchesCompany(job, filters)
      [] step = "location"   -> MatchesLocation(job, filters)
      [] step = "department" -> MatchesDepartment(job, filters)
      [] step = "remote"     -> MatchesRemote(job)
      [] step = "salary"     -> MatchesSalary(job, filters)

\* An array under work: its elements, and whether it is the caller's array
\* itself (shared) or a fresh one.
\* mutant: `let filteredJobs = jobs`, the caller's array itself
SpreadCopy_Alias(arr) == [arr |-> arr, shared |-> TRUE]

\* [...jobs]
SpreadCopy(arr) == [arr |-> arr, shared |-> FALSE]

\* Array.prototype.filter returns a fresh array
ArrayFilter(w, step, filters, searchQry) ==
    [arr |-> SelectSeq(w.arr, LAMBDA job : StepMatches(step, job, filters, searchQry)),
     shared |-> FALSE]

\* mutant: a step filters the parameter jobs instead of filteredJobs
FilterStep_FromInput(w, jobsArg, step, filters, searchQry) ==
    IF StepActive(step, filters, searchQry)
    THEN ArrayFilter(SpreadCopy(jobsArg), step, filters, searchQry)
    ELSE w

\* if (<active>) { filteredJobs = filteredJobs.filter(...) }
\* (jobsArg, the parameter of the call, is in scope and not used)
FilterStep(w, jobsArg, step, filters, searchQry) ==
    IF StepActive(step, filters, searchQry)
    THEN ArrayFilter(w, step, filters, searchQry)
    ELSE w

\* the filter steps of App.js:102-145, applied to the array under work
RECURSIVE FilterChain(_, _, _, _, _)
FilterChain(w, jobsArg, order, filters, searchQry) ==
    IF order = <<>> THEN w
    ELSE FilterChain(FilterStep(w, jobsArg, Head(order), filters, searchQry),
                     jobsArg, Tail(order), filters, searchQry)

\* collation weight of a character: letters by alphabet, case ignored
CharWeight(c) ==
    LET l == LowerChar(c) IN
    IF \E i \in 1..Len(Letters) : Letters[i] = l
    THEN CHOOSE i \in 1..Len(Letters) : Letters[i] = l
    ELSE 0

RECURSIVE ComparePrimary(_, _)
ComparePrimary(a, b) ==
    IF a = <<>> /\ b = <<>> THEN 0
    ELSE IF a = <<>> THEN -1
    ELSE IF b = <<>> THEN 1
    ELSE IF CharWeight(Head(a)) < CharWeight(Head(b)) THEN -1
    ELSE IF CharWeight(Head(a)) > CharWeight(Head(b)) THEN 1
    ELSE ComparePrimary(Tail(a), Tail(b))

RECURSIVE CompareCase(_, _)
CompareCase(a, b) ==
    IF a = <<>> \/ b = <<>> THEN 0
    ELSE IF ~IsCapital(Head(a)) /\ IsCapital(Head(b)) THEN -1
    ELSE IF IsCapital(Head(a)) /\ ~IsCapital(Head(b)) THEN 1
    ELSE CompareCase(Tail(a), Tail(b))

\* String.prototype.localeCompare: letters first, then lower case before upper
LocaleCompare(a, b) ==
    IF ComparePrimary(a, b) # 0 THEN Num(ComparePrimary(a, b))
    ELSE Num(CompareCase(a, b))

\* the comparator passed to sort for each sort option, App.js:151-165
Comparator(sortOpt, a, b) ==
    CASE sortOpt = "alphabetical"    -> LocaleCompare(a.title, b.title)
      [] sortOpt = "salary-high-low" -> NumSub(ParseSalary(b), ParseSalary(a))
      [] sortOpt = "salary-low-high" -> NumSub(ParseSalary(a), ParseSalary(b))

\* what Array.prototype.sort makes of a comparator's result: NaN counts as 0
SortCompare(sortOpt, a, b) ==
    LET v == Comparator(sortOpt, a, b) IN
    IF IsNaN(v) THEN 0 ELSE IF v[1] < 0 THEN -1 ELSE IF v[1] > 0 THEN 1 ELSE 0

\* Array.prototype.sort is stable; with a comparator that is not consistent
\* the order is implementation-defined, so the algorithm is part of the build.
RECURSIVE InsertInto(_, _, _)
InsertInto(sorted, x, sortOpt) ==
    IF sorted = <<>> THEN <<x>>
    ELSE LET last == sorted[Len(sorted)] IN
         IF SortCompare(sortOpt, last, x) > 0
         THEN Append(InsertInto(SubSeq(sorted, 1, Len(sorted) - 1), x, sortOpt), last)
         ELSE Append(sorted, x)

RECURSIVE InsertionSort(_, _)
InsertionSort(arr, sortOpt) ==
    IF arr = <<>> THEN <<>>
    ELSE InsertInto(InsertionSort(SubSeq(arr, 1, Len(arr) - 1), sortOpt),
                    arr[Len(arr)], sortOpt)

RECURSIVE Merge(_, _, _)
Merge(l, r, sortOpt) ==
    IF l = <<>> THEN r
    ELSE IF r = <<>> THEN l
    ELSE IF SortCompare(sortOpt, Head(l), Head(r)) <= 0
         THEN <<Head(l)>> \o Merge(Tail(l), r, sortOpt)
         ELSE <<Head(r)>> \o Merge(l, Tail(r), sortOpt)

RECURSIVE MergeSort(_, _)
MergeSort(arr, sortOpt) ==
    IF Len(arr) <= 1 THEN arr
    ELSE LET mid == Len(arr) \div 2 IN
         Merge(MergeSort(SubSeq(arr, 1, mid), sortOpt),
               MergeSort(SubSeq(arr, mid + 1, Len(arr)), sortOpt), sortOpt)

\* Array.prototype.sort sorts in place: the array keeps its identity
ArraySort(w, sortOpt, bld) ==
    [arr |-> IF bld = "insertion" THEN InsertionSort(w.arr, sortOpt)
             ELSE MergeSort(w.arr, sortOpt),
     shared |-> w.shared]

\* if (sortOption) { switch (sortOption) { ... default: break } }
SortStep(w, sortOpt, bld) ==
    IF sortOpt \in {"alphabetical", "salary-high-low", "salary-low-high"}
    THEN ArraySort(w, sortOpt, bld)
    ELSE w

\* The call: out is the array returned, input the caller's array after the call.
ApplyFiltersAndSort(jobsArg, filters, searchQry, sortOpt, bld) ==
    LET copied   == SpreadCopy(jobsArg)
        filtered == FilterChain(copied, jobsArg, Steps, filters, searchQry)
        sorted   == SortStep(filtered, sortOpt, bld)
    IN  [out   |-> sorted.arr,
         input |-> IF sorted.shared THEN sorted.arr ELSE jobsArg]

----------------------------------------------------------------------------
(* The engine called directly on every input *)

ViewIdle ==
    /\ loading = FALSE
    /\ error = Null
    /\ fetch = [status |-> "resolved", response |-> NoResponse, reason |-> ""]
    /\ effectPending = FALSE
    /\ engineCalls = {}
    /\ applied = {}

EngineInit ==
    /\ jobs \in JobLists
    /\ selectedFilters \in FilterStates
    /\ searchQuery \in Queries
    /\ sortOption \in SortOptions
    /\ build \in Builds
    /\ filteredJobs = <<>>
    /\ returned = <<>>
    /\ phase = "call"
    /\ ViewIdle

\* returned = applyFiltersAndSort(jobs, selectedFilters, searchQuery, sortOption)
Evaluate ==
    /\ phase = "call"
    /\ LET r == ApplyFiltersAndSort(jobs, selectedFilters, searchQuery, sortOption, build)
       IN  /\ returned' = r.out
           /\ jobs' = r.input
    /\ phase' = "returned"
    /\ UNCHANGED <<loading, error, searchQuery, selectedFilters, filteredJobs,
                   sortOption, fetch, effectPending, engineCalls, build, applied>>

EngineNext == Evaluate

EngineSpec == EngineInit /\ [][EngineNext]_vars

----------------------------------------------------------------------------
(* The View: the App component, App.js:29-201 *)

\* mutant: the jobs state starts with placeholder data
InitialJobs_Placeholder == <<JEng>>

\* useState([]) of jobs, App.js:30
InitialJobs == <<>>

\* mutant: the catch block swallows the error
ErrorAfterCatch_Swallowed(message) == Null

\* catch (err) { setError(err.message) }, App.js:73-74
ErrorAfterCatch(message) == message

\* response && response.jobs, App.js:67
ResponseValid(response) == response.present /\ response.jobs # <<>>

\* where the startup fetch stands: in flight, job data available, or failed
FetchState ==
    IF fetch.status = "pending" THEN "loading"
    ELSE IF fetch.status = "resolved" /\ ResponseValid(fetch.response) THEN "data"
    ELSE "error"

\* mutant: the sort option is left out of the condition
HasActiveFilters_NoSort(filters, searchQry, sortOpt) ==
    \/ Len(filters.companies) > 0
    \/ Len(filters.locations) > 0
    \/ Len(filters.departments) > 0
    \/ filters.remote
    \/ filters.salary[1] > DefaultMinSalary
    \/ filters.salary[2] < DefaultMaxSalary
    \/ searchQry # <<>>

\* hasActiveFilters, App.js:177-185
HasActiveFilters(filters, searchQry, sortOpt) ==
    \/ Len(filters.companies) > 0
    \/ Len(filters.locations) > 0
    \/ Len(filters.departments) > 0
    \/ filters.remote
    \/ filters.salary[1] > DefaultMinSalary
    \/ filters.salary[2] < DefaultMaxSalary
    \/ searchQry # <<>>
    \/ sortOpt # ""

\* the state after the first render and its effects: the fetch is in flight and
\* the recompute effect has run once on the initial state
Init ==
    /\ jobs = InitialJobs
    /\ loading = TRUE
    /\ error = Null
    /\ searchQuery = <<>>
    /\ selectedFilters = DefaultFilters
    /\ filteredJobs = <<>>
    /\ sortOption = ""
    /\ fetch = [status |-> "pending", response |-> NoResponse, reason |-> ""]
    /\ effectPending = FALSE
    /\ engineCalls = {}
    /\ build \in Builds
    /\ phase = "view"
    /\ returned = <<>>
    /\ applied = {}

\* loadJobs, App.js:63-78: the awaited fetch resolves with a response holding
\* jobs. The state updates after the await are committed together.
LoadJobsResolved(response) ==
    /\ fetch.status = "pending"
    /\ ~effectPending
    /\ ResponseValid(response)
    /\ jobs' = response.jobs[1]
    /\ filteredJobs' = response.jobs[1]
    /\ loading' = FALSE
    /\ fetch' = [fetch EXCEPT !.status = "resolved", !.response = response]
    /\ effectPending' = TRUE
    /\ UNCHANGED <<error, searchQuery, selectedFilters, sortOption, engineCalls,
                   build, phase, returned, applied>>

\* loadJobs: the response is missing or holds no jobs: throw, catch, finally
LoadJobsInvalid(response) ==
    /\ fetch.status = "pending"
    /\ ~effectPending
    /\ ~ResponseValid(response)
    /\ error' = ErrorAfterCatch("Invalid response format")
    /\ loading' = FALSE
    /\ fetch' = [fetch EXCEPT !.status = "resolved", !.response = response]
    /\ UNCHANGED <<jobs, searchQuery, selectedFilters, filteredJobs, sortOption,
                   effectPending, engineCalls, build, phase, returned, applied>>

\* loadJobs: fetchJobs() rejects: catch, finally
LoadJobsRejected(reason) ==
    /\ fetch.status = "pending"
    /\ ~effectPending
    /\ error' = ErrorAfterCatch(reason)
    /\ loading' = FALSE
    /\ fetch' = [fetch EXCEPT !.status = "rejected", !.reason = reason]
    /\ UNCHANGED <<jobs, searchQuery, selectedFilters, filteredJobs, sortOption,
                   effectPending, engineCalls, build, phase, returned, applied>>

\* handleSearchChange, App.js:195-197 (SearchBar handleChange and handleClear)
HandleSearchChange(query) ==
    /\ ~effectPending
    /\ searchQuery' = query
    /\ effectPending' = (query # searchQuery)
    /\ UNCHANGED <<jobs, loading, error, selectedFilters, filteredJobs, sortOption,
                   fetch, engineCalls, build, phase, returned, applied>>

\* handleFilterChange, App.js:199-201: the sidebar hands over a new object
HandleFilterChange(filters) ==
    /\ ~effectPending
    /\ selectedFilters' = filters
    /\ effectPending' = TRUE
    /\ UNCHANGED <<jobs, loading, error, searchQuery, filteredJobs, sortOption,
                   fetch, engineCalls, build, phase, returned, applied>>

\* handleSortOptionSelect, App.js:57-60
HandleSortOptionSelect(option) ==
    /\ ~effectPending
    /\ sortOption' = option
    /\ effectPending' = (option # sortOption)
    /\ UNCHANGED <<jobs, loading, error, searchQuery, selectedFilters, filteredJobs,
                   fetch, engineCalls, build, phase, returned, applied>>

\* the recompute effect, App.js:175-193
RunEffect ==
    /\ effectPending
    /\ IF HasActiveFilters(selectedFilters, searchQuery, sortOption)
       THEN LET r == ApplyFiltersAndSort(jobs, selectedFilters, searchQuery,
                                         sortOption, build)
            IN  /\ filteredJobs' = r.out
                /\ jobs' = r.input
                /\ engineCalls' = engineCalls
                       \cup {[at |-> FetchState, given |-> Len(jobs)]}
       ELSE /\ filteredJobs' = jobs
            /\ UNCHANGED <<jobs, engineCalls>>
    /\ effectPending' = FALSE
    /\ UNCHANGED <<loading, error, searchQuery, selectedFilters, sortOption, fetch,
                   build, phase, returned, applied>>

Next ==
    \/ \E response \in Responses : LoadJobsResolved(response)
    \/ \E response \in Responses : LoadJobsInvalid(response)
    \/ \E reason \in RejectReasons : LoadJobsRejected(reason)
    \/ \E query \in Queries : HandleSearchChange(query)
    \/ \E filters \in FilterSelections : HandleFilterChange(filters)
    \/ \E option \in SortOptions \ {""} : HandleSortOptionSelect(option)
    \/ RunEffect

Spec == Init /\ [][Next]_vars

----------------------------------------------------------------------------
(* The filter steps applied one at a time, in any order *)

OrderInit ==
    /\ jobs \in JobLists
    /\ selectedFilters \in FilterSelections
    /\ searchQuery \in Queries
    /\ sortOption = ""
    /\ build \in Builds
    /\ filteredJobs = jobs
    /\ returned = <<>>
    /\ phase = "order"
    /\ ViewIdle

\* one filter step of App.js:102-145, on the array the steps before it left
ApplyStep(step) ==
    /\ phase = "order"
    /\ step \notin applied
    /\ filteredJobs' = FilterStep([arr |-> filteredJobs, shared |-> FALSE], jobs,
                                  step, selectedFilters, searchQuery).arr
    /\ applied' = applied \cup {step}
    /\ UNCHANGED <<jobs, loading, error, searchQuery, selectedFilters, sortOption,
                   fetch, effectPending, engineCalls, build, phase, returned>>

OrderNext == \E i \in 1..Len(Steps) : ApplyStep(Steps[i])

OrderSpec == OrderInit /\ [][OrderNext]_vars

----------------------------------------------------------------------------
(* What the specification says of salaries, stated apart from the code *)

\* the parsed salary as documented: absent or without digits counts as 0
DocumentedSalary(job) ==
    IF IsNaN(ParseSalary(job)) THEN 0 ELSE ParseSalary(job)[1]

\* the salary range is a constraint unless it is exactly the default range
DocumentedSalaryActive(filters) ==
    filters.salary # <<DefaultMinSalary, DefaultMaxSalary>>

DocumentedStepActive(step, filters, searchQry) ==
    IF step = "salary" THEN DocumentedSalaryActive(filters)
    ELSE StepActive(step, filters, searchQry)

DocumentedStepMatches(step, job, filters, searchQry) ==
    IF step = "salary"
    THEN /\ filters.salary[1] <= DocumentedSalary(job)
         /\ DocumentedSalary(job) <= filters.salary[2]
    ELSE StepMatches(step, job, filters, searchQry)

\* the job satisfies every active predicate
SatisfiesAll(job, filters, searchQry) ==
    \A i \in 1..Len(Steps) :
        DocumentedStepActive(Steps[i], filters, searchQry)
            => DocumentedStepMatches(Steps[i], job, filters, searchQry)

Count(seq, x) == Cardinality({i \in 1..Len(seq) : seq[i] = x})

HasNoSalaryFigure(job) == ~Truthy(job.salary) \/ IsNaN(ParseSalary(job))

SalarySorts == {"salary-high-low", "salary-low-high"}

\* a before b is in key order for the salary sort option
InKeyOrder(sortOpt, a, b) ==
    IF sortOpt = "salary-high-low"
    THEN DocumentedSalary(a) >= DocumentedSalary(b)
    ELSE DocumentedSalary(a) <= DocumentedSalary(b)

\* the array the engine returns for the same input without a sort option
PreSort ==
    ApplyFiltersAndSort(jobs, selectedFilters, searchQuery, "", build).out

WithKey(seq, k) == SelectSeq(seq, LAMBDA job : DocumentedSalary(job) = k)

----------------------------------------------------------------------------
(* Claims on the engine, under EngineSpec *)

\* C1: the output holds exactly the input jobs that satisfy every active
\* predicate: each output job satisfies them all, each input job that
\* satisfies them all is in the output as often as in the input, and no job
\* is added or duplicated.
C1_SoundAndComplete ==
    phase = "returned" =>
        /\ \A i \in 1..Len(returned) :
               SatisfiesAll(returned[i], selectedFilters, searchQuery)
        /\ \A job \in Catalogue :
               Count(returned, job) =
                   IF SatisfiesAll(job, selectedFilters, searchQuery)
                   THEN Count(jobs, job) ELSE 0

\* C2: the salary predicate is skipped only for the range [0, 500000]; under
\* every other range a job remains only if min <= parsed salary <= max.
C2_SalaryActiveUnlessDefault ==
    (phase = "returned" /\ DocumentedSalaryActive(selectedFilters)) =>
        \A i \in 1..Len(returned) :
            /\ selectedFilters.salary[1] <= DocumentedSalary(returned[i])
            /\ DocumentedSalary(returned[i]) <= selectedFilters.salary[2]

\* C3: a job whose salary is absent or has no digit counts as salary 0: under
\* an active range [min, max] it passes the salary predicate iff
\* min <= 0 <= max, and a salary sort places it as a job with salary 0.
C3_NoFigureCountsAsZero ==
    phase = "returned" =>
        /\ SalaryActive(selectedFilters) =>
               \A job \in Catalogue :
                   (/\ HasNoSalaryFigure(job)
                    /\ Count(jobs, job) > 0
                    /\ \A i \in 1..(Len(Steps) - 1) :
                           StepActive(Steps[i], selectedFilters, searchQuery)
                               => StepMatches(Steps[i], job, selectedFilters, searchQuery))
                   => (Count(returned, job) > 0
                         <=> (selectedFilters.salary[1] <= 0
                                /\ 0 <= selectedFilters.salary[2]))
        /\ sortOption \in SalarySorts =>
               \A i \in 1..(Len(returned) - 1) :
                   (HasNoSalaryFigure(returned[i]) \/ HasNoSalaryFigure(returned[i + 1]))
                       => InKeyOrder(sortOption, returned[i], returned[i + 1])

\* C4: under a salary sort option the output is the filtered sequence stably
\* sorted by parsed salary (absent or without digits counting as 0): adjacent
\* jobs are in key order, and jobs of equal key keep their pre-sort order.
C4_StableSalarySort ==
    (phase = "returned" /\ sortOption \in SalarySorts) =>
        /\ \A i \in 1..(Len(returned) - 1) :
               InKeyOrder(sortOption, returned[i], returned[i + 1])
        /\ \A job \in Catalogue :
               WithKey(returned, DocumentedSalary(job))
                   = WithKey(PreSort, DocumentedSalary(job))

\* C7: a call of the engine leaves the caller's jobs array as it was, for
\* every sort option.
C7_InputNotMutated == [][phase = "call" => jobs' = jobs]_vars

C7_Witness ==
    /\ phase = "returned"
    /\ sortOption # ""
    /\ ~HasActiveFilters(selectedFilters, searchQuery, "")
    /\ returned # jobs

\* C8: with the default filter state, an empty query and no sort option the
\* engine returns the input sequence, same jobs in the same order.
C8_IdentityLaw ==
    (/\ phase = "returned"
     /\ selectedFilters = DefaultFilters
     /\ searchQuery = <<>>
     /\ sortOption = "") => returned = jobs

C8_Witness ==
    /\ phase = "returned"
    /\ selectedFilters = DefaultFilters
    /\ searchQuery = <<>>
    /\ sortOption = ""
    /\ Len(jobs) >= 2
    /\ \E i \in 1..Len(jobs) : HasNoSalaryFigure(jobs[i])
    /\ returned = jobs

----------------------------------------------------------------------------
(* Claim on the order of the filter steps, under OrderSpec *)

AllSteps == {Steps[i] : i \in 1..Len(Steps)}

\* C9: whatever the order in which the six filter steps were applied, the
\* result is the one the order of the code gives.
C9_FiltersCommute ==
    applied = AllSteps =>
        filteredJobs = FilterChain(SpreadCopy(jobs), jobs, Steps,
                                   selectedFilters, searchQuery).arr

C9_Witness ==
    /\ applied = AllSteps
    /\ Cardinality({st \in AllSteps :
                       StepActive(st, selectedFilters, searchQuery)}) >= 2
    /\ filteredJobs # jobs
    /\ filteredJobs # <<>>

----------------------------------------------------------------------------
(* Claims on the View, under Spec *)

LoadingState == loading /\ error = Null /\ jobs = <<>>

DataState ==
    /\ ~loading
    /\ error = Null
    /\ fetch.status = "resolved"
    /\ ResponseValid(fetch.response)
    /\ jobs = fetch.response.jobs[1]

ErrorState == ~loading /\ error # Null /\ jobs = <<>>

\* C6: exactly one of loading, data and error holds; the fetch in flight is
\* the loading state, a response with jobs the data state, a rejection or a
\* response without jobs the error state with its message, and loading is
\* false once the fetch has finished.
C6_ThreeFetchStates ==
    /\ Cardinality({st \in {"loading", "data", "error"} :
                       \/ st = "loading" /\ LoadingState
                       \/ st = "data" /\ DataState
                       \/ st = "error" /\ ErrorState}) = 1
    /\ fetch.status = "pending" => LoadingState
    /\ fetch.status # "pending" => ~loading
    /\ fetch.status = "rejected" => (ErrorState /\ error = fetch.reason)
    /\ (fetch.status = "resolved" /\ ~ResponseValid(fetch.response))
           => (ErrorState /\ error = "Invalid response format")
    /\ (fetch.status = "resolved" /\ ResponseValid(fetch.response)) => DataState

C6_Witness ==
    /\ fetch.status = "resolved"
    /\ fetch.response.present
    /\ ~ResponseValid(fetch.response)
    /\ ErrorState
    /\ searchQuery # <<>>

\* C10: once the recompute effect has run, filteredJobs is what the engine
\* returns for the current jobs, filters, query and sort option, also when
\* the effect took the shortcut that bypasses the engine.
C10_DisplayedIsEngineOutput ==
    ~effectPending =>
        filteredJobs = ApplyFiltersAndSort(jobs, selectedFilters, searchQuery,
                                           sortOption, build).out

C10_Witness ==
    /\ ~effectPending
    /\ FetchState = "data"
    /\ sortOption # ""
    /\ filteredJobs # jobs
    /\ filteredJobs # <<>>

====
